---- MODULE Spec2Model ----
(***************************************************************************)
(* Assessment lifecycle of RateSkills.                                     *)
(*                                                                         *)
(* The repository holds two parallel backends over separate tables:        *)
(*   - the FastAPI backend (app/api/endpoints/assessments.py, app/crud.py) *)
(*     over SkillAssessment / AssessmentHistory / Notification;            *)
(*   - the Flask backend (app/routes/*.py, app/services/*.py) over         *)
(*     UserSkillRating / RatingHistory / Notification.                     *)
(* A process hosts one of the two applications; `backend` records which.   *)
(*                                                                         *)
(* Abstractions: timestamps (assessed_at, approved_at, ...) are "set or     *)
(* not"; texts are None / empty / non-empty; the comment columns of the    *)
(* tables and the changed_by_id / comment columns of the history tables    *)
(* are not part of the state (no operation reads them back).               *)
(***************************************************************************)
EXTENDS Integers, Sequences, FiniteSets, TLC

\* ------------------------------------------------------------------ bounds
MaxAssessments == 1
MaxRows == 2
MaxHistory == 3
MaxNotifications == 2

\* --------------------------------------------------------- program constants
MinScore == 1
MaxScore == 5

\* Python None in an integer column / optional integer field
None == -1
\* Python None in a text column / optional text field
NoText == "<None>"

\* ------------------------------------------------------------- the fixture
\* Users of the organisation (the users table is not changed by the
\* lifecycle operations).  User 1 reports to manager 3, who heads another
\* department: a manager_id chain that crosses departments.
Users == {1, 2, 3, 4}

role(u) ==
  CASE u = 1 -> "employee"
    [] u = 2 -> "manager"
    [] u = 3 -> "manager"
    [] u = 4 -> "admin"
    [] OTHER -> "director"

department_id(u) ==
  CASE u = 1 -> 1
    [] u = 2 -> 1
    [] u = 3 -> 2
    [] OTHER -> 2

manager_id(u) ==
  CASE u = 1 -> 3
    [] OTHER -> None

\* Skills that exist; SkillIds also holds an id no skill has.
Skills == {1}
SkillIds == {1, 2}

\* <<current user, user_id of the body>> of the POST /assessments/ calls:
\* the employee for themself, a manager for the employee, the employee for
\* somebody else.
CreateCalls == {<<1, 1>>, <<2, 1>>, <<1, 2>>}

\* Scores a caller may send: two valid ones and one outside 1..5.
ScoreInputs == {2, 4, 6}
\* The check without its upper bound.
ValidScoreNoUpperBound(s) == s >= MinScore
ValidScore(s) == s >= MinScore /\ s <= MaxScore

\* Comments a caller may send with a self-assessment or an approval (the
\* comment columns are not part of the state).
CommentInputs == {NoText}
\* Comments / reasons a reviewer may send: absent, empty, non-empty.
ReasonInputs == {NoText, "", "r"}

\* Ids a caller of the endpoints / of the data-layer helpers may name.
AssessmentIds == 1..MaxAssessments
RowIds == 1..MaxRows
RatingIds == {1, 2}

VARIABLES
  backend,        \* "fastapi" or "flask": the application the process hosts
  assessments,    \* SkillAssessment table: id -> row
  nextId,         \* next autoincrement id of SkillAssessment
  history,        \* AssessmentHistory table: assessment_id -> its rows, oldest first
  notifications,  \* Notification table, in insertion order
  inflight,       \* the create_assessment request between its two commits, if any
  ratings,        \* UserSkillRating table: id -> row
  rating_history, \* RatingHistory table: rating_id -> its rows, oldest first
  response,       \* the last call answered and its status code
  users,          \* User table: id -> role, department_id, manager_id, is_active
  required_skills,\* RequiredDepartmentSkill table, in insertion order
  stack           \* the frames of the call being evaluated, innermost last

vars == <<backend, assessments, nextId, history, notifications, inflight,
          ratings, rating_history, response, users, required_skills, stack>>
\* The tables and the evaluation state the assessment endpoints leave alone.
org == <<users, required_skills, stack>>
flask_vars == <<ratings, rating_history>>
api_vars == <<assessments, nextId, history, inflight>>

\* The rows of SkillAssessment for a (user, skill) pair.
RowsFor(u, s) ==
  {i \in DOMAIN assessments :
     assessments[i].user_id = u /\ assessments[i].skill_id = s}

RECURSIVE SumLen(_, _)
SumLen(f, S) ==
  IF S = {} THEN 0
  ELSE LET i == CHOOSE x \in S : TRUE IN Len(f[i]) + SumLen(f, S \ {i})

\* Number of rows in AssessmentHistory / RatingHistory.
HistoryCount == SumLen(history, DOMAIN history)
RatingHistoryCount == SumLen(rating_history, DOMAIN rating_history)

\* The last call answered: the operation, the caller and the status code.
Resp(op, actor, code) == [op |-> op, actor |-> actor, code |-> code]

\* The User rows of the fixture; no required skills; no call being evaluated.
InitOrg ==
  /\ users = [u \in Users |->
               [role |-> role(u), department_id |-> department_id(u),
                manager_id |-> manager_id(u), is_active |-> TRUE]]
  /\ required_skills = <<>>
  /\ stack = <<>>

\* The FastAPI application over an empty database.
InitApi ==
  /\ InitOrg
  /\ backend = "fastapi"
  /\ assessments = <<>>
  /\ nextId = 1
  /\ history = <<>>
  /\ notifications = <<>>
  /\ inflight = <<>>
  /\ ratings = <<>>
  /\ rating_history = <<>>
  /\ response = Resp("", None, 0)

\* Room left for one more row in the bounded tables.
HistoryRoom == HistoryCount < MaxHistory
RatingHistoryRoom == RatingHistoryCount < MaxHistory
NotificationRoom == Len(notifications) < MaxNotifications

HistoryRow(old, new, type) ==
  [old_score |-> old, new_score |-> new, change_type |-> type]

\* A write that replaces the rows of the assessment by the new row.
AddHistoryOverwriting(aid, row) == [history EXCEPT ![aid] = <<row>>]
\* db.add(AssessmentHistory(assessment_id=aid, ...))
AddHistory(aid, row) == [history EXCEPT ![aid] = Append(@, row)]

\* A notification addressed to the manager of u.
NotificationRowToManager(u, type) == [user_id |-> manager_id(u), notification_type |-> type]
\* Notification(user_id=u, notification_type=type, ...)
NotificationRow(u, type) == [user_id |-> u, notification_type |-> type]

\* db.query(SkillAssessment).filter(user_id, skill_id).first()
FirstRowFor(u, s) == CHOOSE i \in RowsFor(u, s) : \A j \in RowsFor(u, s) : i <= j

\* POST /assessments/ : create_assessment, up to and including its first
\* commit.  The update branch is complete after this step; the insert branch
\* leaves the 'created' history row to the second commit.
create_assessment(actor, user_id, skill_id, self_score, comment) ==
  /\ backend = "fastapi"
  /\ inflight = <<>>
  /\ IF ~ValidScore(self_score)
       THEN /\ response' = Resp("create_assessment", actor, 422)
            /\ UNCHANGED <<assessments, nextId, history, notifications, inflight>>
     ELSE IF skill_id \notin Skills
       THEN /\ response' = Resp("create_assessment", actor, 404)
            /\ UNCHANGED <<assessments, nextId, history, notifications, inflight>>
     ELSE IF user_id # actor /\ role(actor) \in {"employee"}
       THEN /\ response' = Resp("create_assessment", actor, 403)
            /\ UNCHANGED <<assessments, nextId, history, notifications, inflight>>
     ELSE IF RowsFor(user_id, skill_id) # {}
       THEN LET id == FirstRowFor(user_id, skill_id)
                existing == assessments[id]
            IN /\ HistoryRoom
               /\ history' = AddHistory(id,
                    HistoryRow(existing.self_score, self_score, "self_update"))
               /\ assessments' = [assessments EXCEPT ![id] =
                    [existing EXCEPT !.self_score = self_score,
                                     !.status = "pending"]]
               /\ response' = Resp("create_assessment", actor, 200)
               /\ UNCHANGED <<nextId, notifications, inflight>>
     ELSE /\ nextId <= MaxAssessments
          /\ assessments' = assessments @@ (nextId :>
               [user_id |-> user_id, skill_id |-> skill_id,
                self_score |-> self_score, manager_score |-> None,
                status |-> "pending",
                reject_reason |-> NoText,
                approved_by_id |-> None, approved_at |-> FALSE])
          /\ nextId' = nextId + 1
          /\ history' = history @@ (nextId :> <<>>)
          /\ inflight' = <<[assessment_id |-> nextId, self_score |-> self_score, actor |-> actor]>>
          /\ response' = response
          /\ UNCHANGED notifications
  /\ UNCHANGED <<backend, org, flask_vars>>

\* create_assessment, second commit: the initial history row.
create_assessment_history ==
  /\ inflight # <<>>
  /\ HistoryRoom
  /\ history' = AddHistory(inflight[1].assessment_id,
       HistoryRow(None, inflight[1].self_score, "created"))
  /\ inflight' = <<>>
  /\ response' = Resp("create_assessment", inflight[1].actor, 200)
  /\ UNCHANGED <<backend, org, assessments, nextId, notifications, flask_vars>>

\* create_assessment, second commit fails (the database refuses the commit or
\* the worker dies): the request ends with an error, the row of the first
\* commit stays.
create_assessment_abort ==
  /\ inflight # <<>>
  /\ inflight' = <<>>
  /\ response' = Resp("create_assessment", inflight[1].actor, 500)
  /\ UNCHANGED <<backend, org, assessments, nextId, history, notifications, flask_vars>>

\* ---------------------------------------------------------------------------
\* PUT /assessments/{id} : update_assessment
\* ---------------------------------------------------------------------------

\* A SkillAssessmentUpdate body.  A field the caller did not set holds
\* Unset; dict(exclude_unset=True) keeps the others.
Unset == "<unset>"
Body(self_score, manager_score, status, comment, reject_reason) ==
  [self_score |-> self_score, manager_score |-> manager_score,
   status |-> status, comment |-> comment, reject_reason |-> reject_reason]

IsSet(v) == v # Unset /\ v # None /\ v # NoText

\* The bodies callers send: every single field, and the pairs a review or a
\* re-submission is made of.
PutBodies ==
  { Body(None, None, Unset, NoText, NoText) }
  \cup { Body(s, None, Unset, NoText, NoText) : s \in {2, 4, 6} }
  \cup { Body(None, m, Unset, NoText, NoText) : m \in {4, 6} }
  \cup { Body(None, None, st, NoText, NoText) : st \in {"pending", "approved"} }
  \cup { Body(None, None, "rejected", c, NoText) : c \in ReasonInputs }
  \cup { Body(None, 4, "approved", NoText, NoText) }
  \cup { Body(None, None, "rejected", NoText, "r") }

\* Python truthiness of an optional text / an optional integer.
TruthyText(c) == c # NoText /\ c # ""
TruthyInt(n) == n # None /\ n # 0

\* for field, value in update_data.items(): setattr(assessment, field, value)
SetAttrs(row, body) ==
  [row EXCEPT
     !.self_score = IF body.self_score # None THEN body.self_score ELSE @,
     !.manager_score = IF body.manager_score # None THEN body.manager_score ELSE @,
     !.status = IF body.status # Unset THEN body.status ELSE @,
     !.reject_reason = IF body.reject_reason # NoText THEN body.reject_reason ELSE @]

update_assessment(actor, id, body) ==
  /\ backend = "fastapi"
  /\ inflight = <<>>
  /\ LET failed(code) ==
           /\ response' = Resp("update_assessment", actor, code)
           /\ UNCHANGED <<assessments, history, notifications>>
     IN
     IF \/ (body.self_score # None /\ ~ValidScore(body.self_score))
        \/ (body.manager_score # None /\ ~ValidScore(body.manager_score))
       THEN failed(422)
     ELSE IF id \notin DOMAIN assessments
       THEN failed(404)
     ELSE
       LET assessment == assessments[id]
           is_self_update == actor = assessment.user_id
           is_manager_update == role(actor) \in {"manager", "admin", "hr", "director"}
       IN
       IF ~(is_self_update \/ is_manager_update)
         THEN failed(403)
       ELSE IF /\ is_manager_update /\ role(actor) = "manager"
               /\ department_id(assessment.user_id) # department_id(actor)
         THEN failed(403)
       ELSE
         LET old_score == assessment.self_score
             change_type == IF is_manager_update THEN "manager_update" ELSE "self_update"
             row == HistoryRow(old_score,
                      IF TruthyInt(body.self_score) THEN body.self_score ELSE old_score,
                      change_type)
             reviewing == is_manager_update /\ body.status # Unset
             approving == reviewing /\ body.status = "approved"
             rejecting == reviewing /\ body.status = "rejected"
             marked == IF approving
                         THEN [assessment EXCEPT
                                 !.manager_score = assessment.self_score,
                                 !.approved_by_id = actor,
                                 !.approved_at = TRUE]
                       ELSE assessment
         IN /\ HistoryRoom
            /\ (approving \/ rejecting) => NotificationRoom
            /\ notifications' =
                 IF approving
                   THEN Append(notifications, NotificationRow(assessment.user_id, "success"))
                 ELSE IF rejecting
                   THEN Append(notifications, NotificationRow(assessment.user_id, "error"))
                 ELSE notifications
            /\ assessments' = [assessments EXCEPT ![id] = SetAttrs(marked, body)]
            /\ history' = AddHistory(id, row)
            /\ response' = Resp("update_assessment", actor, 200)
  /\ UNCHANGED <<backend, org, nextId, inflight, flask_vars>>

\* ---------------------------------------------------------------------------
\* DELETE /assessments/{id} : delete_assessment
\* ---------------------------------------------------------------------------
RemoveRow(id) == [i \in DOMAIN assessments \ {id} |-> assessments[i]]

delete_assessment(actor, id) ==
  /\ backend = "fastapi"
  /\ inflight = <<>>
  /\ IF id \notin DOMAIN assessments
       THEN /\ response' = Resp("delete_assessment", actor, 404)
            /\ UNCHANGED <<assessments, history>>
     ELSE IF actor # assessments[id].user_id /\ role(actor) \notin {"admin", "hr"}
       THEN /\ response' = Resp("delete_assessment", actor, 403)
            /\ UNCHANGED <<assessments, history>>
     ELSE /\ history' = [history EXCEPT ![id] = <<>>]
          /\ assessments' = RemoveRow(id)
          /\ response' = Resp("delete_assessment", actor, 200)
  /\ UNCHANGED <<backend, org, nextId, notifications, inflight, flask_vars>>

\* ---------------------------------------------------------------------------
\* POST /assessments/{id}/approve, POST /assessments/{id}/reject
\* ---------------------------------------------------------------------------

\* Depends(check_manager_permission)
check_manager_permission(user) ==
  role(user) \in {"manager", "admin", "hr", "director"}

\* The endpoint that passes `status` to _update_assessment_status.
status_op(status) ==
  IF status = "approved" THEN "approve_assessment" ELSE "reject_assessment"

\* _update_assessment_status(assessment_id, status, comment, current_user, db)
update_assessment_status(id, status, comment, current_user) ==
  IF id \notin DOMAIN assessments
    THEN /\ response' = Resp(status_op(status), current_user, 404)
         /\ UNCHANGED <<assessments, history, notifications>>
  ELSE IF /\ role(current_user) = "manager"
          /\ department_id(assessments[id].user_id) # department_id(current_user)
    THEN /\ response' = Resp(status_op(status), current_user, 403)
         /\ UNCHANGED <<assessments, history, notifications>>
  ELSE
    LET assessment == assessments[id]
        row == HistoryRow(assessment.self_score, assessment.self_score,
                          "manager_" \o status)
        updated == [assessment EXCEPT !.status = status]
        approved == [updated EXCEPT
                       !.manager_score = assessment.self_score,
                       !.approved_by_id = current_user,
                       !.approved_at = TRUE]
    IN /\ HistoryRoom
       /\ NotificationRoom
       /\ assessments' = [assessments EXCEPT ![id] =
                            IF status = "approved" THEN approved ELSE updated]
       /\ history' = AddHistory(id, row)
       /\ notifications' = Append(notifications,
            NotificationRow(assessment.user_id,
                            IF status = "approved" THEN "success" ELSE "error"))
       /\ response' = Resp(status_op(status), current_user, 200)

approve_assessment(actor, id, comment) ==
  /\ backend = "fastapi"
  /\ inflight = <<>>
  /\ IF ~check_manager_permission(actor)
       THEN /\ response' = Resp("approve_assessment", actor, 403)
            /\ UNCHANGED <<assessments, history, notifications>>
     ELSE update_assessment_status(id, "approved", comment, actor)
  /\ UNCHANGED <<backend, org, nextId, inflight, flask_vars>>

reject_assessment(actor, id, comment) ==
  /\ backend = "fastapi"
  /\ inflight = <<>>
  /\ IF ~check_manager_permission(actor)
       THEN /\ response' = Resp("reject_assessment", actor, 403)
            /\ UNCHANGED <<assessments, history, notifications>>
     ELSE IF comment = NoText
       THEN /\ response' = Resp("reject_assessment", actor, 422)  \* comment is required
            /\ UNCHANGED <<assessments, history, notifications>>
     ELSE IF ~TruthyText(comment)
       THEN /\ response' = Resp("reject_assessment", actor, 400)
            /\ UNCHANGED <<assessments, history, notifications>>
     ELSE update_assessment_status(id, "rejected", comment, actor)
  /\ UNCHANGED <<backend, org, nextId, inflight, flask_vars>>

\* ---------------------------------------------------------------------------
\* app/crud.py : the data-layer helpers over the same tables
\* ---------------------------------------------------------------------------

\* create_skill_assessment, up to and including its first commit; the
\* 'created' history row follows in a second commit, as in create_assessment.
create_skill_assessment(user_id, skill_id, self_score) ==
  /\ backend = "fastapi"
  /\ inflight = <<>>
  /\ nextId <= MaxRows
  /\ assessments' = assessments @@ (nextId :>
       [user_id |-> user_id, skill_id |-> skill_id,
        self_score |-> self_score, manager_score |-> None,
        status |-> "pending", reject_reason |-> NoText,
        approved_by_id |-> None, approved_at |-> FALSE])
  /\ nextId' = nextId + 1
  /\ history' = history @@ (nextId :> <<>>)
  /\ inflight' = <<[assessment_id |-> nextId, self_score |-> self_score, actor |-> None]>>
  /\ response' = response
  /\ UNCHANGED <<backend, org, notifications, flask_vars>>

\* The update_data dictionaries passed to update_skill_assessment.
CrudUpdates ==
  { Body(s, None, Unset, NoText, NoText) : s \in {2, 4} }
  \cup { Body(None, None, st, NoText, NoText) : st \in {"pending", "approved"} }

update_skill_assessment(assessment_id, update_data) ==
  /\ backend = "fastapi"
  /\ inflight = <<>>
  /\ IF assessment_id \notin DOMAIN assessments
       THEN /\ response' = Resp("update_skill_assessment", None, 404)
            /\ UNCHANGED <<assessments, history>>
     ELSE LET db_assessment == assessments[assessment_id]
              old_score == db_assessment.self_score
              scored == update_data.self_score # None
                          /\ update_data.self_score # old_score
          IN /\ scored => HistoryRoom
             /\ history' = IF scored
                             THEN AddHistory(assessment_id,
                                    HistoryRow(old_score, update_data.self_score, "update"))
                           ELSE history
             /\ assessments' = [assessments EXCEPT ![assessment_id] =
                                  SetAttrs(db_assessment, update_data)]
             /\ response' = Resp("update_skill_assessment", None, 200)
  /\ UNCHANGED <<backend, org, nextId, notifications, inflight, flask_vars>>

crud_approve_assessment(assessment_id, manager) ==
  /\ backend = "fastapi"
  /\ inflight = <<>>
  /\ IF assessment_id \notin DOMAIN assessments
       THEN /\ response' = Resp("crud_approve_assessment", manager, 404)
            /\ UNCHANGED <<assessments, history>>
     ELSE LET db_assessment == assessments[assessment_id]
          IN /\ HistoryRoom
             /\ history' = AddHistory(assessment_id,
                  HistoryRow(db_assessment.self_score, db_assessment.self_score, "approved"))
             /\ assessments' = [assessments EXCEPT ![assessment_id] =
                  [db_assessment EXCEPT
                     !.status = "approved",
                     !.manager_score = db_assessment.self_score,
                     !.approved_by_id = manager,
                     !.approved_at = TRUE]]
             /\ response' = Resp("crud_approve_assessment", manager, 200)
  /\ UNCHANGED <<backend, org, nextId, notifications, inflight, flask_vars>>

crud_reject_assessment(assessment_id, manager, reason) ==
  /\ backend = "fastapi"
  /\ inflight = <<>>
  /\ IF assessment_id \notin DOMAIN assessments
       THEN /\ response' = Resp("crud_reject_assessment", manager, 404)
            /\ UNCHANGED <<assessments, history>>
     ELSE LET db_assessment == assessments[assessment_id]
          IN /\ HistoryRoom
             /\ history' = AddHistory(assessment_id,
                  HistoryRow(db_assessment.self_score, db_assessment.self_score, "rejected"))
             /\ assessments' = [assessments EXCEPT ![assessment_id] =
                  [db_assessment EXCEPT
                     !.status = "rejected",
                     !.reject_reason = reason]]
             /\ response' = Resp("crud_reject_assessment", manager, 200)
  /\ UNCHANGED <<backend, org, nextId, notifications, inflight, flask_vars>>

delete_skill_assessment(assessment_id) ==
  /\ backend = "fastapi"
  /\ inflight = <<>>
  /\ IF assessment_id \notin DOMAIN assessments
       THEN /\ response' = Resp("delete_skill_assessment", None, 404)
            /\ UNCHANGED <<assessments, history>>
     ELSE /\ history' = [history EXCEPT ![assessment_id] = <<>>]
          /\ assessments' = RemoveRow(assessment_id)
          /\ response' = Resp("delete_skill_assessment", None, 200)
  /\ UNCHANGED <<backend, org, nextId, notifications, inflight, flask_vars>>

\* Reviewers named in the manager_id argument of the helpers.
CrudManagers == {2}

NextApi ==
  \/ \E call \in CreateCalls, skill_id \in SkillIds,
        self_score \in ScoreInputs, comment \in CommentInputs :
       create_assessment(call[1], call[2], skill_id, self_score, comment)
  \/ create_assessment_history
  \/ create_assessment_abort
  \/ \E actor \in Users, id \in AssessmentIds, body \in PutBodies :
       update_assessment(actor, id, body)
  \/ \E actor \in Users, id \in AssessmentIds : delete_assessment(actor, id)
  \/ \E actor \in Users, id \in AssessmentIds, comment \in CommentInputs :
       approve_assessment(actor, id, comment)
  \/ \E actor \in Users, id \in AssessmentIds, comment \in ReasonInputs :
       reject_assessment(actor, id, comment)

NextCrud ==
  \/ \E self_score \in {2, 4} : create_skill_assessment(1, 1, self_score)
  \/ create_assessment_history
  \/ create_assessment_abort
  \/ \E id \in RowIds, update_data \in CrudUpdates :
       update_skill_assessment(id, update_data)
  \/ \E id \in RowIds, m \in CrudManagers : crud_approve_assessment(id, m)
  \/ \E id \in RowIds, m \in CrudManagers, reason \in ReasonInputs :
       crud_reject_assessment(id, m, reason)
  \/ \E id \in RowIds : delete_skill_assessment(id)

\* ---------------------------------------------------------------------------
\* The Flask backend: app/services/rating_service.py, app/routes/*.py
\* ---------------------------------------------------------------------------

\* Ratings as app/utils/seed_data.py writes them for an employee: final_score
\* is the self score, manager_score and confirmed_by may be missing, no
\* history row is written.
SeedRatings ==
  { [user_id |-> 1, skill_id |-> 1, self_score |-> s, manager_score |-> m,
     final_score |-> s, status |-> st, confirmed_by |-> c] :
      s \in {2}, m \in {None, 3}, st \in {"pending", "confirmed"},
      c \in {None, manager_id(1)} }

\* The Flask application over an empty or a seeded database.
InitFlask ==
  /\ InitOrg
  /\ backend = "flask"
  /\ assessments = <<>>
  /\ nextId = 1
  /\ history = <<>>
  /\ notifications = <<>>
  /\ inflight = <<>>
  /\ \/ ratings = <<>> /\ rating_history = <<>>
     \/ \E seed \in SeedRatings :
          ratings = (1 :> seed) /\ rating_history = (1 :> <<>>)
  /\ response = Resp("", None, 0)

RatingHistoryRow(action, old_self, new_self, old_manager, new_manager, old_status, new_status) ==
  [action |-> action, old_self_score |-> old_self, new_self_score |-> new_self,
   old_manager_score |-> old_manager, new_manager_score |-> new_manager,
   old_status |-> old_status, new_status |-> new_status]

AddRatingHistory(rid, row) == [rating_history EXCEPT ![rid] = Append(@, row)]

RatingsFor(u, s) ==
  {i \in DOMAIN ratings : ratings[i].user_id = u /\ ratings[i].skill_id = s}

\* RatingService.create_or_update_rating: TRUE when the call commits, with
\* the new tables in ratings' and rating_history'.  In the insert branch the
\* history row is built with rating_id = rating.id before the rating is
\* flushed, so rating_id is None and the commit violates the NOT NULL
\* constraint of RatingHistory.rating_id: nothing is written.
create_or_update_rating(user_id, skill_id, self_score) ==
  /\ RatingsFor(user_id, skill_id) # {}
  /\ LET id == CHOOSE i \in RatingsFor(user_id, skill_id) : TRUE
         rating == ratings[id]
         old_self_score == rating.self_score
         old_status == rating.status
     IN /\ ratings' = [ratings EXCEPT ![id] =
             [rating EXCEPT !.self_score = self_score, !.status = "pending"]]
        /\ (old_self_score # self_score) => RatingHistoryRoom
        /\ rating_history' =
             IF old_self_score # self_score
               THEN AddRatingHistory(id,
                      RatingHistoryRow("updated", old_self_score, self_score,
                                       None, None, old_status, "pending"))
             ELSE rating_history

\* POST /ratings : create_rating
create_rating(current_user_id, skill_id, self_score) ==
  /\ backend = "flask"
  /\ IF ~ValidScore(self_score)
       THEN /\ response' = Resp("create_rating", current_user_id, 400)
            /\ UNCHANGED <<ratings, rating_history, notifications>>
     ELSE IF skill_id \notin Skills
       THEN /\ response' = Resp("create_rating", current_user_id, 404)
            /\ UNCHANGED <<ratings, rating_history, notifications>>
     ELSE IF RatingsFor(current_user_id, skill_id) = {}
       THEN /\ response' = Resp("create_rating", current_user_id, 500)
            /\ UNCHANGED <<ratings, rating_history, notifications>>
     ELSE /\ create_or_update_rating(current_user_id, skill_id, self_score)
          /\ TruthyInt(manager_id(current_user_id)) => NotificationRoom
          /\ notifications' =
               IF TruthyInt(manager_id(current_user_id))
                 THEN Append(notifications,
                        NotificationRow(manager_id(current_user_id), "new_assessment"))
               ELSE notifications
          /\ response' = Resp("create_rating", current_user_id, 200)
  /\ UNCHANGED <<backend, org, api_vars>>

\* POST /ratings/bulk : bulk_update_ratings, with one rating in the request
bulk_update_ratings(current_user_id, skill_id, self_score) ==
  /\ backend = "flask"
  /\ IF ~ValidScore(self_score)
       THEN /\ response' = Resp("bulk_update_ratings", current_user_id, 400)
            /\ UNCHANGED <<ratings, rating_history>>
     ELSE IF RatingsFor(current_user_id, skill_id) = {}
       THEN /\ response' = Resp("bulk_update_ratings", current_user_id, 200)  \* error listed
            /\ UNCHANGED <<ratings, rating_history>>
     ELSE /\ create_or_update_rating(current_user_id, skill_id, self_score)
          /\ response' = Resp("bulk_update_ratings", current_user_id, 200)
  /\ UNCHANGED <<backend, org, api_vars, notifications>>

\* can_manage_employee granting a manager their subordinates as well (the
\* rule can_view_employee applies).
can_manage_employee_subordinates(current_user, employee_id) ==
  IF role(current_user) = "admin" THEN TRUE
  ELSE IF role(current_user) = "manager"
    THEN employee_id \in Users
         /\ (department_id(employee_id) = department_id(current_user)
             \/ manager_id(employee_id) = current_user)
  ELSE FALSE

\* UserService.can_manage_employee
can_manage_employee(current_user, employee_id) ==
  IF role(current_user) = "admin" THEN TRUE
  ELSE IF role(current_user) = "manager"
    THEN employee_id \in Users
         /\ department_id(employee_id) = department_id(current_user)
  ELSE FALSE

\* The employee ids callers put in the URL: the owner of the seeded rating
\* and a user of the other department.
EmployeeIds == {1, 3}

\* The JSON bodies sent to PUT /employees/<id>/ratings/<id>.
RatingUpdates ==
  { [manager_score |-> None, status |-> st] :
      st \in {Unset, "confirmed", "rejected"} }
  \cup { [manager_score |-> 4, status |-> Unset] }

\* PUT /employees/<employee_id>/ratings/<rating_id> : update_employee_rating.
\* manager_routes.py does not import datetime, so a body with manager_score
\* raises NameError at manager_assessment_date = datetime.utcnow(); the
\* handler rolls back and answers 500.
update_employee_rating(current_user_id, employee_id, rating_id, data) ==
  /\ backend = "flask"
  /\ LET failed(code) ==
           /\ response' = Resp("update_employee_rating", current_user_id, code)
           /\ UNCHANGED <<ratings, rating_history, notifications>>
     IN
     IF ~can_manage_employee(current_user_id, employee_id)
       THEN failed(403)
     ELSE IF rating_id \notin DOMAIN ratings \/ ratings[rating_id].user_id # employee_id
       THEN failed(404)
     ELSE IF data.manager_score # None
       THEN failed(500)
     ELSE
       LET rating == ratings[rating_id]
           updated ==
             IF data.status = Unset THEN rating
             ELSE IF data.status = "confirmed"
               THEN [rating EXCEPT
                       !.status = "confirmed",
                       !.final_score = IF TruthyInt(rating.manager_score)
                                         THEN rating.manager_score
                                       ELSE rating.self_score,
                       !.confirmed_by = current_user_id]
             ELSE IF data.status = "rejected"
               THEN [rating EXCEPT !.status = "rejected", !.final_score = None]
             ELSE [rating EXCEPT !.status = data.status]
       IN /\ RatingHistoryRoom
          /\ NotificationRoom
          /\ ratings' = [ratings EXCEPT ![rating_id] = updated]
          /\ rating_history' = AddRatingHistory(rating_id,
               RatingHistoryRow("adjusted", None, None,
                                rating.manager_score, updated.manager_score,
                                rating.status, updated.status))
          /\ notifications' = Append(notifications,
               NotificationRow(employee_id, "rating_adjusted"))
          /\ response' = Resp("update_employee_rating", current_user_id, 200)
  /\ UNCHANGED <<backend, org, api_vars>>

\* POST /employees/<employee_id>/ratings/<rating_id>/confirm : confirm_rating
confirm_rating(current_user_id, employee_id, rating_id) ==
  /\ backend = "flask"
  /\ LET failed(code) ==
           /\ response' = Resp("confirm_rating", current_user_id, code)
           /\ UNCHANGED <<ratings, rating_history, notifications>>
     IN
     IF ~can_manage_employee(current_user_id, employee_id)
       THEN failed(403)
     ELSE IF rating_id \notin DOMAIN ratings \/ ratings[rating_id].user_id # employee_id
       THEN failed(404)
     ELSE
       LET rating == ratings[rating_id]
       IN /\ RatingHistoryRoom
          /\ NotificationRoom
          /\ ratings' = [ratings EXCEPT ![rating_id] =
               [rating EXCEPT
                  !.status = "confirmed",
                  !.final_score = IF TruthyInt(rating.manager_score)
                                    THEN rating.manager_score
                                  ELSE rating.self_score,
                  !.confirmed_by = current_user_id]]
          /\ rating_history' = AddRatingHistory(rating_id,
               RatingHistoryRow("confirmed", None, None, None, None,
                                rating.status, "confirmed"))
          /\ notifications' = Append(notifications,
               NotificationRow(employee_id, "rating_confirmed"))
          /\ response' = Resp("confirm_rating", current_user_id, 200)
  /\ UNCHANGED <<backend, org, api_vars>>

NextFlask ==
  \/ \E u \in {1, 2}, skill_id \in SkillIds, self_score \in ScoreInputs :
       create_rating(u, skill_id, self_score)
  \/ \E self_score \in ScoreInputs : bulk_update_ratings(1, 1, self_score)
  \/ \E actor \in Users, employee_id \in EmployeeIds, rating_id \in RatingIds,
        data \in RatingUpdates :
       update_employee_rating(actor, employee_id, rating_id, data)
  \/ \E actor \in Users, employee_id \in EmployeeIds, rating_id \in RatingIds :
       confirm_rating(actor, employee_id, rating_id)

Init == InitApi \/ InitFlask

Next == NextApi \/ NextFlask

\* The endpoints of the application the process hosts.
Spec == Init /\ [][Next]_vars

\* The data-layer helpers of app/crud.py over an empty database.
SpecCrud == InitApi /\ [][NextCrud]_vars

\* ---------------------------------------------------------------------------
\* Concurrent self-assessment requests.  Each request runs in its own
\* database session: it looks the row up, then writes and commits.  Between
\* the two steps another request may commit.  inflight maps the requests in
\* progress to what their session has loaded.
\* ---------------------------------------------------------------------------
Requests == {1, 2}

\* The requests: user 1 submits a score for skill 1.
SubmitScores == {2, 4}

Finish(r) == [x \in DOMAIN inflight \ {r} |-> inflight[x]]

\* create_or_update_rating, the query: rating = ...filter_by(...).first()
rating_lookup(r, user_id, skill_id, self_score) ==
  /\ backend = "flask"
  /\ r \notin DOMAIN inflight
  /\ LET found == RatingsFor(user_id, skill_id)
         id == IF found = {} THEN None ELSE CHOOSE i \in found : TRUE
     IN inflight' = inflight @@ (r :>
          [user_id |-> user_id, skill_id |-> skill_id, self_score |-> self_score,
           rating |-> id,
           old_self_score |-> IF id = None THEN None ELSE ratings[id].self_score,
           old_status |-> IF id = None THEN NoText ELSE ratings[id].status])
  /\ UNCHANGED <<backend, org, assessments, nextId, history, notifications,
                 ratings, rating_history, response>>

\* create_or_update_rating, from the assignments to db.session.commit().  The
\* session writes the columns whose value differs from the loaded one; the
\* history row carries the loaded values.  The insert branch cannot commit
\* (rating_id of its history row is None).
rating_commit(r) ==
  /\ backend = "flask"
  /\ r \in DOMAIN inflight
  /\ LET req == inflight[r]
     IN IF req.rating = None
          THEN /\ response' = Resp("create_or_update_rating", req.user_id, 500)
               /\ UNCHANGED <<ratings, rating_history>>
        ELSE /\ ratings' = [ratings EXCEPT ![req.rating] =
                  [@ EXCEPT
                     !.self_score = IF req.self_score # req.old_self_score
                                      THEN req.self_score ELSE @,
                     !.status = IF req.old_status # "pending"
                                  THEN "pending" ELSE @]]
             /\ (req.old_self_score # req.self_score) => RatingHistoryRoom
             /\ rating_history' =
                  IF req.old_self_score # req.self_score
                    THEN AddRatingHistory(req.rating,
                           RatingHistoryRow("updated", req.old_self_score,
                                            req.self_score, None, None,
                                            req.old_status, "pending"))
                  ELSE rating_history
             /\ response' = Resp("create_or_update_rating", req.user_id, 200)
  /\ inflight' = Finish(r)
  /\ UNCHANGED <<backend, org, assessments, nextId, history, notifications>>

\* create_assessment, the query: existing = ...first()
assessment_lookup(r, user_id, skill_id, self_score) ==
  /\ backend = "fastapi"
  /\ r \notin DOMAIN inflight
  /\ LET found == RowsFor(user_id, skill_id)
         id == IF found = {} THEN None ELSE FirstRowFor(user_id, skill_id)
     IN inflight' = inflight @@ (r :>
          [user_id |-> user_id, skill_id |-> skill_id, self_score |-> self_score,
           existing |-> id, inserted |-> None,
           old_self_score |-> IF id = None THEN None ELSE assessments[id].self_score,
           old_status |-> IF id = None THEN NoText ELSE assessments[id].status])
  /\ UNCHANGED <<backend, org, assessments, nextId, history, notifications,
                 ratings, rating_history, response>>

\* create_assessment, the first commit: the update of the loaded row with
\* its history row, or the insert of a new row.  The handler catches no
\* database error and the sources declare no uniqueness constraint for the
\* table, so the insert is not refused when another request has inserted the
\* pair meanwhile.
assessment_write(r) ==
  /\ backend = "fastapi"
  /\ r \in DOMAIN inflight
  /\ inflight[r].inserted = None
  /\ LET req == inflight[r]
     IN IF req.existing # None
          THEN /\ HistoryRoom
               /\ assessments' = [assessments EXCEPT ![req.existing] =
                    [@ EXCEPT
                       !.self_score = IF req.self_score # req.old_self_score
                                        THEN req.self_score ELSE @,
                       !.status = IF req.old_status # "pending"
                                    THEN "pending" ELSE @]]
               /\ history' = AddHistory(req.existing,
                    HistoryRow(req.old_self_score, req.self_score, "self_update"))
               /\ response' = Resp("create_assessment", req.user_id, 200)
               /\ inflight' = Finish(r)
               /\ UNCHANGED nextId
        ELSE /\ nextId <= MaxRows
             /\ assessments' = assessments @@ (nextId :>
                  [user_id |-> req.user_id, skill_id |-> req.skill_id,
                   self_score |-> req.self_score, manager_score |-> None,
                   status |-> "pending", reject_reason |-> NoText,
                   approved_by_id |-> None, approved_at |-> FALSE])
             /\ nextId' = nextId + 1
             /\ history' = history @@ (nextId :> <<>>)
             /\ inflight' = [inflight EXCEPT ![r].inserted = nextId]
             /\ response' = response
  /\ UNCHANGED <<backend, org, notifications, ratings, rating_history>>

\* create_assessment, the second commit: the 'created' history row.
assessment_created(r) ==
  /\ backend = "fastapi"
  /\ r \in DOMAIN inflight
  /\ inflight[r].inserted # None
  /\ HistoryRoom
  /\ history' = AddHistory(inflight[r].inserted,
       HistoryRow(None, inflight[r].self_score, "created"))
  /\ response' = Resp("create_assessment", inflight[r].user_id, 200)
  /\ inflight' = Finish(r)
  /\ UNCHANGED <<backend, org, assessments, nextId, notifications, ratings,
                 rating_history>>

NextConcurrent ==
  \/ \E r \in Requests, self_score \in SubmitScores :
       rating_lookup(r, 1, 1, self_score)
  \/ \E r \in Requests : rating_commit(r)
  \/ \E r \in Requests, self_score \in SubmitScores :
       assessment_lookup(r, 1, 1, self_score)
  \/ \E r \in Requests : assessment_write(r)
  \/ \E r \in Requests : assessment_created(r)

\* Concurrent self-assessment submissions of one user for one skill.
SpecConcurrent == Init /\ [][NextConcurrent]_vars

\* ---------------------------------------------------------------------------
\* A review running concurrently with self-assessment submissions.  The
\* review is one more request with its own session.
\* ---------------------------------------------------------------------------
Reviews == {3}

\* The reviewers that send the approve.
Approvers == {2, 3}

\* _update_assessment_status, from the query to the permission check: the
\* session loads the row.
approve_lookup(r, current_user, assessment_id) ==
  /\ backend = "fastapi"
  /\ r \notin DOMAIN inflight
  /\ IF assessment_id \notin DOMAIN assessments
       THEN /\ response' = Resp("approve_assessment", current_user, 404)
            /\ UNCHANGED inflight
     ELSE IF /\ role(current_user) = "manager"
             /\ department_id(assessments[assessment_id].user_id) #
                  department_id(current_user)
       THEN /\ response' = Resp("approve_assessment", current_user, 403)
            /\ UNCHANGED inflight
     ELSE /\ inflight' = inflight @@ (r :>
               [current_user |-> current_user, assessment |-> assessment_id,
                self_score |-> assessments[assessment_id].self_score,
                manager_score |-> assessments[assessment_id].manager_score,
                status |-> assessments[assessment_id].status])
          /\ UNCHANGED response
  /\ UNCHANGED <<backend, org, assessments, nextId, history, notifications,
                 ratings, rating_history>>

\* _update_assessment_status, from the history entry to db.commit(): the
\* session writes the columns whose value differs from the loaded one, with
\* the self score it loaded as manager_score.
approve_commit(r) ==
  /\ backend = "fastapi"
  /\ r \in DOMAIN inflight
  /\ HistoryRoom /\ NotificationRoom
  /\ LET req == inflight[r]
         id == req.assessment
     IN /\ assessments' = [assessments EXCEPT ![id] =
             [@ EXCEPT
                !.status = IF req.status # "approved" THEN "approved" ELSE @,
                !.manager_score = IF req.manager_score # req.self_score
                                    THEN req.self_score ELSE @,
                !.approved_by_id = req.current_user,
                !.approved_at = TRUE]]
        /\ history' = AddHistory(id,
             HistoryRow(req.self_score, req.self_score, "manager_approved"))
        /\ notifications' = Append(notifications,
             NotificationRow(assessments[id].user_id, "success"))
        /\ response' = Resp("approve_assessment", req.current_user, 200)
  /\ inflight' = Finish(r)
  /\ UNCHANGED <<backend, org, nextId, ratings, rating_history>>

NextReviewRace ==
  \/ \E r \in Requests, self_score \in SubmitScores :
       assessment_lookup(r, 1, 1, self_score)
  \/ \E r \in Requests : assessment_write(r)
  \/ \E r \in Requests : assessment_created(r)
  \/ \E r \in Reviews, current_user \in Approvers, assessment_id \in RowIds :
       approve_lookup(r, current_user, assessment_id)
  \/ \E r \in Reviews : approve_commit(r)

\* An approve of a reviewer concurrent with the owner's submissions.
SpecReviewRace == InitApi /\ [][NextReviewRace]_vars

\* ---------------------------------------------------------------------------
\* Reads: what a caller is shown and what the aggregations take as the score
\* ---------------------------------------------------------------------------

\* GET /assessments/{assessment_id} : the status code of get_assessment.
get_assessment(current_user, assessment_id) ==
  IF assessment_id \notin DOMAIN assessments THEN 404
  ELSE IF /\ current_user # assessments[assessment_id].user_id
          /\ role(current_user) \in {"employee"}
    THEN 403
  ELSE IF /\ role(current_user) \in {"manager"}
          /\ department_id(current_user) #
               department_id(assessments[assessment_id].user_id)
    THEN 403
  ELSE 200

\* Values of the optional user_id / department_id query parameters.
UserFilters == {None} \cup Users
DepartmentFilters == {None} \cup {department_id(u) : u \in Users}

\* GET /assessments/ : get_assessments with the user_id and department_id
\* filters; the status code and the ids of the rows returned.
get_assessments(current_user, user_id, department_id_filter) ==
  LET filtered ==
        {i \in DOMAIN assessments :
           /\ TruthyInt(user_id) => assessments[i].user_id = user_id
           /\ TruthyInt(department_id_filter) =>
                department_id(assessments[i].user_id) = department_id_filter}
  IN IF role(current_user) \in {"employee"}
       THEN IF TruthyInt(user_id) /\ user_id # current_user
              THEN [code |-> 403, rows |-> {}]
            ELSE IF ~TruthyInt(user_id)
              THEN [code |-> 200,
                    rows |-> {i \in filtered : assessments[i].user_id = current_user}]
            ELSE [code |-> 200, rows |-> filtered]
     ELSE IF role(current_user) \in {"manager"}
       THEN IF /\ TruthyInt(department_id_filter)
               /\ department_id_filter # department_id(current_user)
              THEN [code |-> 403, rows |-> {}]
            ELSE IF ~TruthyInt(department_id_filter) /\ ~TruthyInt(user_id)
              THEN [code |-> 200,
                    rows |-> {i \in filtered :
                                department_id(assessments[i].user_id) =
                                  department_id(current_user)}]
            ELSE [code |-> 200, rows |-> filtered]
     ELSE [code |-> 200, rows |-> filtered]

\* UserSkillRating.effective_score
effective_score(rating) ==
  IF TruthyInt(rating.final_score) THEN rating.final_score
  ELSE rating.self_score

\* crud.get_user_stats: the score an approved assessment adds to avg_score.
stats_score(assessment) == assessment.self_score

\* ---------------------------------------------------------------------------
\* The manager_id relation: app/services/user_service.py
\* ---------------------------------------------------------------------------

\* Depth at which the interpreter stops a recursion with RecursionError; it is
\* larger than the number of users, so a search along an acyclic chain of
\* subordinates never reaches it.
RecursionLimit == 5

\* A call answered with a value: the operation, the caller and the value.
Answer(op, actor, code, result) ==
  [op |-> op, actor |-> actor, code |-> code, result |-> result]

\* Values of the manager_id argument and of the manager_id keyword.
ManagerInputs == {None} \cup Users

\* The ids of a set of users in ascending order, as the query returns them.
RECURSIVE InOrder(_)
InOrder(S) ==
  IF S = {} THEN <<>>
  ELSE LET least == CHOOSE x \in S : \A y \in S : x <= y
       IN <<least>> \o InOrder(S \ {least})

\* User.query.filter_by(manager_id=manager_id, is_active=True).all()
get_subordinates(manager) ==
  InOrder({u \in DOMAIN users :
             users[u].manager_id = manager /\ users[u].is_active})

\* UserService.assign_manager: ValueError unless both users exist and the
\* manager has the manager role; otherwise the manager_id is written.
assign_manager(user_id, manager) ==
  /\ stack = <<>>
  /\ IF \/ user_id \notin DOMAIN users
        \/ manager \notin DOMAIN users
        \/ users[manager].role # "manager"
       THEN /\ response' = Answer("assign_manager", user_id, 400, "ValueError")
            /\ UNCHANGED users
     ELSE /\ users' = [users EXCEPT ![user_id].manager_id = manager]
          /\ response' = Answer("assign_manager", user_id, 200, "True")
  /\ UNCHANGED <<backend, assessments, nextId, history, notifications, inflight,
                 ratings, rating_history, required_skills, stack>>

\* UserService.update_user with the manager_id keyword: setattr, then commit.
update_user(user_id, manager) ==
  /\ stack = <<>>
  /\ IF user_id \notin DOMAIN users
       THEN /\ response' = Answer("update_user", user_id, 400, "ValueError")
            /\ UNCHANGED users
     ELSE /\ users' = [users EXCEPT ![user_id].manager_id = manager]
          /\ response' = Answer("update_user", user_id, 200, "True")
  /\ UNCHANGED <<backend, assessments, nextId, history, notifications, inflight,
                 ratings, rating_history, required_skills, stack>>

\* A frame of is_subordinate(manager_id, target_id): the subordinates the
\* loop has not visited yet.
Frame(manager, target_id) ==
  [manager_id |-> manager, target_id |-> target_id,
   subordinates |-> get_subordinates(manager)]

\* UserService.can_view_employee, up to the first call of is_subordinate.
can_view_employee(current_user, employee_id) ==
  /\ stack = <<>>
  /\ current_user \in DOMAIN users
  /\ LET answer(result) ==
           Answer("can_view_employee", current_user, 200, result)
     IN IF users[current_user].role = "admin"
          THEN response' = answer("True") /\ UNCHANGED stack
        ELSE IF users[current_user].role = "manager"
          THEN IF employee_id \notin DOMAIN users
                 THEN response' = answer("False") /\ UNCHANGED stack
               ELSE IF users[employee_id].department_id =
                         users[current_user].department_id
                 THEN response' = answer("True") /\ UNCHANGED stack
               ELSE /\ stack' = <<Frame(current_user, employee_id)>>
                    /\ response' = Answer("is_subordinate", current_user, 0, "")
        ELSE /\ response' =
                  answer(IF current_user = employee_id THEN "True" ELSE "False")
             /\ UNCHANGED stack
  /\ UNCHANGED <<backend, assessments, nextId, history, notifications, inflight,
                 ratings, rating_history, users, required_skills>>

\* One step of the innermost is_subordinate frame: the loop is over (return
\* False to the caller), the next subordinate is the target (every frame
\* returns True), or the search recurses into the next subordinate.
is_subordinate ==
  /\ stack # <<>>
  /\ LET frame == stack[Len(stack)]
         caller == stack[1].manager_id
         answer(code, result) == Answer("can_view_employee", caller, code, result)
     IN IF frame.subordinates = <<>>
          THEN /\ stack' = SubSeq(stack, 1, Len(stack) - 1)
               /\ response' = IF Len(stack) = 1 THEN answer(200, "False")
                              ELSE response
        ELSE LET sub == Head(frame.subordinates)
                 rest == [frame EXCEPT !.subordinates = Tail(@)]
             IN IF sub = frame.target_id
                  THEN stack' = <<>> /\ response' = answer(200, "True")
                ELSE IF Len(stack) >= RecursionLimit
                  THEN /\ stack' = <<>>
                       /\ response' = answer(500, "RecursionError")
                ELSE /\ stack' = [stack EXCEPT ![Len(stack)] = rest]
                                   \o <<Frame(sub, frame.target_id)>>
                     /\ UNCHANGED response
  /\ UNCHANGED <<backend, assessments, nextId, history, notifications, inflight,
                 ratings, rating_history, users, required_skills>>

NextUsers ==
  \/ \E user_id \in Users, manager \in ManagerInputs :
       assign_manager(user_id, manager)
  \/ \E user_id \in Users, manager \in ManagerInputs :
       update_user(user_id, manager)
  \/ \E current_user \in Users, employee_id \in Users :
       can_view_employee(current_user, employee_id)
  \/ is_subordinate

\* The user service of the Flask application over the users of the fixture.
SpecUsers == InitFlask /\ [][NextUsers]_vars

\* ---------------------------------------------------------------------------
\* Department analytics of the Flask backend: app/services/rating_service.py
\* ---------------------------------------------------------------------------

\* Employees of department 1 in the analytics fixture.
NumEmployees == 10

\* The skills of the analytics fixture, all active.
AnalyticsSkills == {1, 2}

\* Users of the gap analysis: NumEmployees active employees of department 1,
\* their manager, and an employee of the department who is not active.
GapUsers ==
  [u \in 1..(NumEmployees + 2) |->
     [role |-> IF u = NumEmployees + 1 THEN "manager" ELSE "employee",
      department_id |-> 1,
      manager_id |-> IF u = NumEmployees + 1 THEN None ELSE NumEmployees + 1,
      is_active |-> u # NumEmployees + 2]]

\* The ratings an employee may hold for a skill: none, or a row in one of
\* the states the rating endpoints leave behind.
RatingKinds ==
  {"none", "pending", "confirmed", "confirmed_low", "adjusted_low", "rejected"}

RatingOfKind(kind, u, sk) ==
  [user_id |-> u, skill_id |-> sk,
   self_score |-> IF kind = "confirmed_low" THEN 2 ELSE 4,
   manager_score |-> IF kind = "adjusted_low" THEN 2 ELSE None,
   final_score |-> CASE kind = "confirmed" -> 4
                     [] kind \in {"confirmed_low", "adjusted_low"} -> 2
                     [] OTHER -> None,
   status |-> CASE kind = "pending" -> "pending"
                [] kind = "rejected" -> "rejected"
                [] OTHER -> "confirmed",
   confirmed_by |-> IF kind \in {"pending", "rejected"} THEN None
                    ELSE NumEmployees + 1]

\* The kind of rating employee u holds for a skill when the first k employees
\* hold kind a and the others kind b.
KindOf(u, k, a, b) == IF u <= k THEN a ELSE b

\* UserSkillRating rows in insertion order: for each employee up to n the row
\* for skill 1, then the row for skill 2.
RECURSIVE RatingRows(_, _, _, _, _)
RatingRows(n, k1, a, b, k2) ==
  IF n = 0 THEN <<>>
  ELSE RatingRows(n - 1, k1, a, b, k2)
         \o (IF KindOf(n, k1, a, b) = "none" THEN <<>>
             ELSE <<RatingOfKind(KindOf(n, k1, a, b), n, 1)>>)
         \o (IF n <= k2 THEN <<RatingOfKind("confirmed", n, 2)>> ELSE <<>>)

RequiredSkillRow(dept, sk, min_score) ==
  [department_id |-> dept, skill_id |-> sk, min_score |-> min_score]

\* The Flask application over the analytics fixture: skills 1 and 2 are
\* required in department 1 and skill 1 in department 2, which has no
\* employee.
InitGaps ==
  /\ backend = "flask"
  /\ assessments = <<>>
  /\ nextId = 1
  /\ history = <<>>
  /\ notifications = <<>>
  /\ inflight = <<>>
  /\ users = GapUsers
  /\ required_skills = <<RequiredSkillRow(1, 1, 3), RequiredSkillRow(1, 2, 3),
                         RequiredSkillRow(2, 1, 3)>>
  /\ \E k1 \in 0..NumEmployees, b \in RatingKinds, k2 \in {2, 7, NumEmployees} :
       ratings = RatingRows(NumEmployees, k1, "confirmed", b, k2)
  /\ rating_history = [rid \in DOMAIN ratings |-> <<>>]
  /\ stack = <<>>
  /\ response = Resp("", None, 0)

\* User.query.filter_by(department_id=..., is_active=True, role='employee')
department_employees(dept) ==
  {u \in DOMAIN users :
     /\ users[u].department_id = dept
     /\ users[u].is_active
     /\ users[u].role = "employee"}

\* UserSkillRating.query.filter_by(user_id=..., skill_id=...).first()
first_rating(u, sk) ==
  IF RatingsFor(u, sk) = {} THEN None
  ELSE CHOOSE i \in RatingsFor(u, sk) : \A j \in RatingsFor(u, sk) : i <= j

\* _get_department_skill_gaps: the employees counted as non compliant.
non_compliant(req_skill) ==
  {e \in department_employees(req_skill.department_id) :
     \/ first_rating(e, req_skill.skill_id) = None
     \/ effective_score(ratings[first_rating(e, req_skill.skill_id)])
          < req_skill.min_score}

\* round(n / d * 100, 2) in hundredths, halves to the even digit.
Percentage(n, d) ==
  LET q == (n * 10000) \div d
      r == (n * 10000) % d
  IN IF 2 * r > d \/ (2 * r = d /\ q % 2 = 1) THEN q + 1 ELSE q

\* gap_percentage >= 30 for n of d employees.
SignificantGapInclusive(n, d) == n * 100 >= 30 * d
\* gap_percentage > 30 for n of d employees: (n / d) * 100 > 30.
SignificantGap(n, d) == n * 100 > 30 * d

\* sorted(gaps, key=gap_percentage, reverse=True): a stable sort.
RECURSIVE SortedGaps(_)
SortedGaps(gaps) ==
  IF gaps = <<>> THEN <<>>
  ELSE LET before == SortedGaps(SubSeq(gaps, 1, Len(gaps) - 1))
           g == gaps[Len(gaps)]
           k == Cardinality({i \in DOMAIN before :
                               before[i].gap_percentage >= g.gap_percentage})
       IN SubSeq(before, 1, k) \o <<g>> \o SubSeq(before, k + 1, Len(before))

\* The gaps appended for the first n required skills.
RECURSIVE GapsOf(_, _)
GapsOf(dept, n) ==
  IF n = 0 THEN <<>>
  ELSE LET req_skill == required_skills[n]
           employees == department_employees(dept)
           count == Cardinality(non_compliant(req_skill))
       IN GapsOf(dept, n - 1) \o
          (IF /\ req_skill.department_id = dept
              /\ req_skill.skill_id \in AnalyticsSkills
              /\ employees # {}
              /\ SignificantGap(count, Cardinality(employees))
             THEN <<[skill_id |-> req_skill.skill_id,
                     min_score |-> req_skill.min_score,
                     non_compliant_count |-> count,
                     total_employees |-> Cardinality(employees),
                     gap_percentage |->
                       Percentage(count, Cardinality(employees))]>>
           ELSE <<>>)

\* RatingService._get_department_skill_gaps(department_id)
get_department_skill_gaps(dept) ==
  /\ backend = "flask"
  /\ response' = Answer("_get_department_skill_gaps", dept, 200,
                        SortedGaps(GapsOf(dept, Len(required_skills))))
  /\ UNCHANGED <<backend, org, assessments, nextId, history, notifications,
                 inflight, ratings, rating_history>>

\* RatingService.compare_employees(employee_ids): ValueError for fewer than
\* two ids or an id without an active user; otherwise, for every active
\* skill, the score of every employee (None without a rating).
compare_employees(employee_ids) ==
  /\ backend = "flask"
  /\ LET ids == {employee_ids[i] : i \in DOMAIN employee_ids}
         employees == {u \in DOMAIN users : u \in ids /\ users[u].is_active}
         score(e, sk) ==
           IF first_rating(e, sk) = None THEN None
           ELSE effective_score(ratings[first_rating(e, sk)])
         skills == InOrder(AnalyticsSkills)
         comparison ==
           [n \in DOMAIN skills |->
              [skill_id |-> skills[n],
               employees |-> [e \in employees |-> score(e, skills[n])]]]
         answer(code, result) ==
           [op |-> "compare_employees", actor |-> None, code |-> code,
            entities |-> employee_ids, skill_ids |-> <<>>, result |-> result]
     IN response' =
          IF Len(employee_ids) < 2 THEN answer(500, <<>>)
          ELSE IF Cardinality(employees) # Len(employee_ids)
            THEN answer(500, <<>>)
          ELSE answer(200, comparison)
  /\ UNCHANGED <<backend, org, assessments, nextId, history, notifications,
                 inflight, ratings, rating_history>>

\* The employee_ids of the compare_employees calls.
EmployeeIdLists == {<<>>, <<1>>, <<1, 2>>, <<1, NumEmployees + 2>>}

NextGaps ==
  \/ \E dept \in {1, 2} : get_department_skill_gaps(dept)
  \/ \E employee_ids \in EmployeeIdLists : compare_employees(employee_ids)

\* The analytics of the Flask application over the analytics fixture.
SpecGaps == InitGaps /\ [][NextGaps]_vars

\* ---------------------------------------------------------------------------
\* Statistics and comparison of the FastAPI backend: app/crud.py,
\* app/api/endpoints/dashboard.py, app/api/endpoints/assessments.py
\* ---------------------------------------------------------------------------

\* What a user may hold for a skill: nothing, or an assessment.
AssessmentKinds == {"none", "pending", "approved", "approved_low"}

AssessmentOfKind(kind, u, sk) ==
  [user_id |-> u, skill_id |-> sk,
   self_score |-> IF kind = "approved_low" THEN 2 ELSE 4,
   status |-> IF kind = "pending" THEN "pending" ELSE "approved",
   manager_score |-> CASE kind = "approved" -> 4
                       [] kind = "approved_low" -> 2
                       [] OTHER -> None,
   reject_reason |-> NoText,
   approved_by_id |-> IF kind = "pending" THEN None ELSE 4,
   approved_at |-> kind # "pending"]

\* The (user, skill) pairs that may hold an assessment, in insertion order.
Slots == <<(<<1, 1>>), (<<1, 2>>), (<<2, 1>>), (<<3, 2>>)>>

\* SkillAssessment rows in insertion order for a choice of kinds.
RECURSIVE AssessmentRows(_, _)
AssessmentRows(kinds, n) ==
  IF n = 0 THEN <<>>
  ELSE AssessmentRows(kinds, n - 1)
         \o (IF kinds[n] = "none" THEN <<>>
             ELSE <<AssessmentOfKind(kinds[n], Slots[n][1], Slots[n][2])>>)

\* The required skills of the departments: none, skill 1 in department 1, or
\* skills 1 and 2 in department 1.
RequiredChoices ==
  {<<>>, <<RequiredSkillRow(1, 1, 3)>>,
   <<RequiredSkillRow(1, 1, 3), RequiredSkillRow(1, 2, 3)>>}

\* The FastAPI application over tables that hold assessments.
InitStats ==
  /\ backend = "fastapi"
  /\ \E kinds \in [DOMAIN Slots -> AssessmentKinds] :
       assessments = AssessmentRows(kinds, Len(Slots))
  /\ nextId = Len(assessments) + 1
  /\ history = [id \in DOMAIN assessments |-> <<>>]
  /\ notifications = <<>>
  /\ inflight = <<>>
  /\ ratings = <<>>
  /\ rating_history = <<>>
  /\ users = [u \in Users |->
               [role |-> role(u), department_id |-> department_id(u),
                manager_id |-> manager_id(u), is_active |-> TRUE]]
  /\ required_skills \in RequiredChoices
  /\ stack = <<>>
  /\ response = Resp("", None, 0)

\* round(n / d, ...) to the nearest integer, halves to the even one.
RoundDiv(n, d) ==
  LET q == n \div d
      r == n % d
  IN IF 2 * r > d \/ (2 * r = d /\ q % 2 = 1) THEN q + 1 ELSE q

\* db.query(Skill).filter(Skill.required_for_departments.any(id=dept))
required_for(dept) ==
  {required_skills[n].skill_id : n \in
     {m \in DOMAIN required_skills : required_skills[m].department_id = dept}}

\* The approved assessments of the users of a department.
approved_assessments(dept) ==
  {i \in DOMAIN assessments :
     /\ assessments[i].status = "approved"
     /\ users[assessments[i].user_id].department_id = dept}

\* get_department_stats / _get_manager_dashboard_stats: covered_skills, the
\* required skills that have an approved assessment in the department.
covered_skills(dept) ==
  {assessments[i].skill_id : i \in
     {j \in approved_assessments(dept) :
        assessments[j].skill_id \in required_for(dept)}}

\* skill_coverage, rounded to one decimal, in tenths of a percent.
skill_coverage(dept) ==
  IF Cardinality(required_for(dept)) > 0
    THEN RoundDiv(Cardinality(covered_skills(dept)) * 1000,
                  Cardinality(required_for(dept)))
  ELSE 0

\* crud.get_department_stats(db, department_id)
get_department_stats(dept) ==
  /\ backend = "fastapi"
  /\ response' = Answer("get_department_stats", dept, 200,
       [required_skills |-> Cardinality(required_for(dept)),
        covered_skills |-> Cardinality(covered_skills(dept)),
        skill_coverage |-> skill_coverage(dept)])
  /\ UNCHANGED <<backend, org, assessments, nextId, history, notifications,
                 inflight, ratings, rating_history>>

\* dashboard._get_manager_dashboard_stats(user, db): the coverage of the
\* department of the manager.
get_manager_dashboard_stats(user) ==
  /\ backend = "fastapi"
  /\ response' = Answer("_get_manager_dashboard_stats",
       users[user].department_id, 200,
       [required_skills |-> Cardinality(required_for(users[user].department_id)),
        covered_skills |-> Cardinality(covered_skills(users[user].department_id)),
        skill_coverage |-> skill_coverage(users[user].department_id)])
  /\ UNCHANGED <<backend, org, assessments, nextId, history, notifications,
                 inflight, ratings, rating_history>>

\* The elements of a list.
Elements(list) == {list[i] : i \in DOMAIN list}

RECURSIVE SumOf(_, _)
SumOf(f, S) ==
  IF S = {} THEN 0
  ELSE LET x == CHOOSE y \in S : TRUE IN f[x] + SumOf(f, S \ {x})

\* sum(skill_scores.values()) / len(skill_scores) if skill_scores else 0, in
\* hundredths.
average_score(skill_scores) ==
  IF DOMAIN skill_scores = {} THEN 0
  ELSE RoundDiv(SumOf(skill_scores, DOMAIN skill_scores) * 100,
                Cardinality(DOMAIN skill_scores))

\* {a.skill_id: a.self_score for a in assessments}: the last row of a skill
\* wins.
scores_of(rows) ==
  [sk \in {assessments[i].skill_id : i \in rows} |->
     LET last == CHOOSE i \in rows :
                   /\ assessments[i].skill_id = sk
                   /\ \A j \in rows : assessments[j].skill_id = sk => j <= i
     IN assessments[last].self_score]

\* {row.skill_id: round(row.avg_score, 2)} of the group-by query, in
\* hundredths.
averages_of(rows) ==
  [sk \in {assessments[i].skill_id : i \in rows} |->
     LET of_skill == {i \in rows : assessments[i].skill_id = sk}
     IN RoundDiv(SumOf([i \in of_skill |-> assessments[i].self_score], of_skill)
                   * 100,
                 Cardinality(of_skill))]

\* The approved assessments of a user, of the skills of a non-empty filter.
approved_of_user(user_id, skill_ids) ==
  {i \in DOMAIN assessments :
     /\ assessments[i].user_id = user_id
     /\ assessments[i].status = "approved"
     /\ skill_ids # <<>> => assessments[i].skill_id \in Elements(skill_ids)}

approved_of_department(dept, skill_ids) ==
  {i \in approved_assessments(dept) :
     skill_ids # <<>> => assessments[i].skill_id \in Elements(skill_ids)}

\* What a compare call answers: its arguments, and an entry per entity.
Comparison(op, actor, entities, skill_ids, code, result) ==
  [op |-> op, actor |-> actor, code |-> code, entities |-> entities,
   skill_ids |-> skill_ids, result |-> result]

Entry(entity_type, id, skill_scores, average) ==
  [entity_type |-> entity_type, entity_id |-> id, skill_scores |-> skill_scores,
   average_score |-> average]

\* crud.compare_users(db, user_ids, skill_ids)
compare_users(user_ids, skill_ids) ==
  /\ backend = "fastapi"
  /\ LET keep(id) == id \in DOMAIN users
         entry(id) ==
           Entry("user", id, scores_of(approved_of_user(id, skill_ids)),
                 average_score(scores_of(approved_of_user(id, skill_ids))))
     IN response' = Comparison("compare_users", None, user_ids, skill_ids, 200,
                               [n \in DOMAIN SelectSeq(user_ids, keep) |->
                                  entry(SelectSeq(user_ids, keep)[n])])
  /\ UNCHANGED <<backend, org, assessments, nextId, history, notifications,
                 inflight, ratings, rating_history>>

\* The departments that exist.
Departments == {1, 2}

\* crud.compare_departments(db, department_ids, skill_ids)
compare_departments(department_ids, skill_ids) ==
  /\ backend = "fastapi"
  /\ LET keep(id) == id \in Departments
         entry(id) ==
           Entry("department", id,
                 averages_of(approved_of_department(id, skill_ids)),
                 RoundDiv(average_score(
                            averages_of(approved_of_department(id, skill_ids))),
                          100))
     IN response' = Comparison("compare_departments", None, department_ids,
                               skill_ids, 200,
                               [n \in DOMAIN SelectSeq(department_ids, keep) |->
                                  entry(SelectSeq(department_ids, keep)[n])])
  /\ UNCHANGED <<backend, org, assessments, nextId, history, notifications,
                 inflight, ratings, rating_history>>

\* POST /assessments/compare : compare_assessments.  ComparisonRequest runs
\* validate_comparison, which reads self.field1, an attribute the schema does
\* not declare; the request is either refused there or handed to the
\* handler.  The handler never reads skill_ids.
compare_assessments(current_user, user_ids, department_ids, skill_ids) ==
  /\ backend = "fastapi"
  /\ LET entities == IF user_ids # <<>> THEN user_ids ELSE department_ids
         answer(code, result) ==
           Comparison("compare_assessments", current_user, entities, skill_ids,
                      code, result)
         keep_user(id) ==
           /\ id \in DOMAIN users
           /\ ~(/\ users[current_user].role = "manager"
                /\ users[id].department_id # users[current_user].department_id)
         user_entry(id) ==
           Entry("user", id, scores_of(approved_of_user(id, <<>>)),
                 average_score(scores_of(approved_of_user(id, <<>>))))
         keep_department(id) ==
           /\ id \in Departments
           /\ ~(/\ users[current_user].role = "manager"
                /\ id # users[current_user].department_id)
         department_entry(id) ==
           Entry("department", id,
                 averages_of(approved_of_department(id, <<>>)),
                 RoundDiv(average_score(
                            averages_of(approved_of_department(id, <<>>))),
                          100))
     IN \/ response' = answer(500, <<>>)
        \/ response' =
             IF user_ids = <<>> /\ department_ids = <<>>
               THEN answer(400, <<>>)
             ELSE IF user_ids # <<>>
               THEN answer(200,
                      [n \in DOMAIN SelectSeq(user_ids, keep_user) |->
                         user_entry(SelectSeq(user_ids, keep_user)[n])])
             ELSE answer(200,
                    [n \in DOMAIN SelectSeq(department_ids, keep_department) |->
                       department_entry(
                         SelectSeq(department_ids, keep_department)[n])])
  /\ UNCHANGED <<backend, org, assessments, nextId, history, notifications,
                 inflight, ratings, rating_history>>

\* The user_ids, department_ids and skill_ids of the compare calls; the empty
\* list also stands for an argument that is not given.
UserIdLists == {<<>>, <<1>>, <<1, 3>>}
DepartmentIdLists == {<<>>, <<1>>, <<1, 2>>}
SkillIdLists == {<<>>, <<2>>}

NextStats ==
  \/ \E dept \in Departments : get_department_stats(dept)
  \/ \E user \in {2, 3} : get_manager_dashboard_stats(user)
  \/ \E user_ids \in UserIdLists, skill_ids \in SkillIdLists :
       compare_users(user_ids, skill_ids)
  \/ \E department_ids \in DepartmentIdLists, skill_ids \in SkillIdLists :
       compare_departments(department_ids, skill_ids)
  \/ \E current_user \in {2, 4}, user_ids \in UserIdLists,
        department_ids \in DepartmentIdLists, skill_ids \in SkillIdLists :
       compare_assessments(current_user, user_ids, department_ids, skill_ids)

\* The statistics and comparisons of the FastAPI application.
SpecStats == InitStats /\ [][NextStats]_vars

\* ===========================================================================
\* Properties
\* ===========================================================================

\* The tables an operation may write.
data == <<assessments, history, notifications, ratings, rating_history>>

\* A manager of another department than the owner's.
CrossDepartment(actor, owner) ==
  role(actor) = "manager" /\ department_id(owner) # department_id(actor)

ReviewOps == {"approve_assessment", "reject_assessment", "update_assessment",
              "update_employee_rating", "confirm_rating"}

\* The reviewers of an assessment: admin, hr and director, and a manager of
\* the owner's department.
can_review(actor, owner) ==
  \/ role(actor) \in {"admin", "hr", "director"}
  \/ role(actor) = "manager" /\ department_id(actor) = department_id(owner)

\* The columns the state machine is about.
Tracked(row) ==
  [self_score |-> row.self_score, manager_score |-> row.manager_score,
   status |-> row.status]

\* C1: after any sequence of create, update, review and delete calls there is
\* at most one assessment row for a (user_id, skill_id) pair.
C1_OneRowPerUserSkill ==
  /\ \A u \in Users, s \in Skills : Cardinality(RowsFor(u, s)) <= 1
  /\ \A u \in Users, s \in Skills : Cardinality(RatingsFor(u, s)) <= 1

\* C2: when the owner re-submits a self score for an assessment that is
\* approved or rejected (confirmed or rejected in the Flask backend), through
\* the POST create-or-update or through the PUT update, and the call
\* succeeds, the status is pending afterwards, whatever the score.
C2_SelfUpdateReturnsToPending ==
  [][ /\ \A id \in DOMAIN assessments :
           LET a == assessments[id]
               owner == a.user_id
           IN (/\ a.status \in {"approved", "rejected"}
               /\ response'.actor = owner /\ response'.code = 200) =>
                /\ \A s \in ScoreInputs, c \in CommentInputs :
                     create_assessment(owner, owner, a.skill_id, s, c) =>
                       assessments'[id].status = "pending"
                /\ \A body \in PutBodies :
                     (/\ body.self_score # None /\ body.status = Unset
                      /\ update_assessment(owner, id, body)) =>
                       assessments'[id].status = "pending"
      /\ \A rid \in DOMAIN ratings :
           LET r == ratings[rid]
           IN (/\ r.status \in {"confirmed", "rejected"}
               /\ response'.actor = r.user_id /\ response'.code = 200) =>
                \A s \in ScoreInputs :
                  create_rating(r.user_id, r.skill_id, s) =>
                    ratings'[rid].status = "pending"
    ]_vars

\* C3: the status of an assessment becomes approved or rejected (confirmed or
\* rejected in the Flask backend) only in a call made by a reviewer of it; an
\* employee never approves an own assessment.
C3_OnlyReviewersDecide ==
  [][ /\ \A id \in DOMAIN assessments' :
           LET new == assessments'[id]
           IN (/\ new.status \in {"approved", "rejected"}
               /\ \/ id \notin DOMAIN assessments
                  \/ assessments[id].status # new.status) =>
                can_review(response'.actor, new.user_id)
      /\ \A rid \in DOMAIN ratings' :
           LET new == ratings'[rid]
           IN (/\ new.status \in {"confirmed", "rejected"}
               /\ \/ rid \notin DOMAIN ratings
                  \/ ratings[rid].status # new.status) =>
                can_review(response'.actor, new.user_id)
    ]_vars

C5_RejectNeedsReason ==
  [][ \A actor \in Users, id \in DOMAIN assessments :
        (/\ can_review(actor, assessments[id].user_id)
         /\ response'.actor = actor) =>
          /\ \A c \in ReasonInputs :
               (~TruthyText(c) /\ reject_assessment(actor, id, c)) =>
                 response'.code \in {400, 422} /\ UNCHANGED data
          /\ \A body \in PutBodies :
               (/\ body.status = "rejected"
                /\ ~TruthyText(body.comment)
                /\ ~TruthyText(body.reject_reason)
                /\ update_assessment(actor, id, body)) =>
                 response'.code \in {400, 422} /\ UNCHANGED data
    ]_vars

\* Rows a step appends to the history of an assessment / of a rating.
HistoryAdded(id) ==
  Len(history'[id]) - (IF id \in DOMAIN history THEN Len(history[id]) ELSE 0)
RatingHistoryAdded(rid) ==
  Len(rating_history'[rid]) - Len(rating_history[rid])

\* C6: state changes and history rows are paired in every commit: a commit
\* that creates an assessment or changes its self score, manager score or
\* status writes exactly one history row for it, and a commit that changes
\* none of them writes no history row.
C6_ChangePairedWithHistory ==
  [][ /\ \A id \in DOMAIN assessments' :
           IF \/ id \notin DOMAIN assessments
              \/ Tracked(assessments[id]) # Tracked(assessments'[id])
             THEN HistoryAdded(id) = 1
           ELSE HistoryAdded(id) = 0
      /\ \A rid \in DOMAIN ratings' :
           rid \in DOMAIN ratings =>
             IF Tracked(ratings[rid]) # Tracked(ratings'[rid])
               THEN RatingHistoryAdded(rid) = 1
             ELSE RatingHistoryAdded(rid) = 0
    ]_vars

\* The change types the history rows carry, by the transition they record.
CreatedTypes == {"created"}
UpdatedTypes == {"self_update", "update", "updated"}
ApprovedTypes == {"manager_approved", "approved"}
RejectedTypes == {"manager_rejected", "rejected"}
AdjustedTypes == {"manager_update", "adjusted"}

\* The effect of one history row on (self_score, manager_score, status).
ReplayRow(state, row) ==
  IF row.change_type \in CreatedTypes
    THEN [self_score |-> row.new_score, manager_score |-> None,
          status |-> "pending"]
  ELSE IF row.change_type \in UpdatedTypes
    THEN [state EXCEPT !.self_score = row.new_score, !.status = "pending"]
  ELSE IF row.change_type \in ApprovedTypes
    THEN [state EXCEPT !.manager_score = row.new_score, !.status = "approved"]
  ELSE IF row.change_type \in RejectedTypes
    THEN [state EXCEPT !.status = "rejected"]
  ELSE IF row.change_type \in AdjustedTypes
    THEN [state EXCEPT !.manager_score = row.new_score]
  ELSE state

RECURSIVE Replay(_)
Replay(rows) ==
  IF rows = <<>>
    THEN [self_score |-> None, manager_score |-> None, status |-> "pending"]
  ELSE ReplayRow(Replay(SubSeq(rows, 1, Len(rows) - 1)), rows[Len(rows)])

\* C7: replaying the history rows of an assessment in order, from its
\* 'created' row, reproduces its current self_score, manager_score and
\* status.
C7_ReplayReproducesState ==
  \A id \in DOMAIN assessments :
    (/\ inflight = <<>>
     /\ history[id] # <<>>
     /\ history[id][1].change_type \in CreatedTypes) =>
      Replay(history[id]) = Tracked(assessments[id])

\* C8: a review (approve, reject, confirm) is accepted only while the status
\* is pending: on an approved or rejected assessment it fails and changes
\* nothing.
C8_ReviewOnlyWhenPending ==
  [][ /\ \A actor \in Users, id \in DOMAIN assessments :
           (/\ assessments[id].status \in {"approved", "rejected"}
            /\ response'.actor = actor) =>
             /\ \A c \in CommentInputs :
                  approve_assessment(actor, id, c) =>
                    response'.code # 200 /\ UNCHANGED data
             /\ \A c \in ReasonInputs :
                  reject_assessment(actor, id, c) =>
                    response'.code # 200 /\ UNCHANGED data
      /\ \A actor \in Users, rid \in DOMAIN ratings :
           (/\ ratings[rid].status \in {"confirmed", "rejected"}
            /\ response'.actor = actor) =>
             \A e \in EmployeeIds :
               confirm_rating(actor, e, rid) =>
                 response'.code # 200 /\ UNCHANGED data
    ]_vars

\* C9: an adjust (a reviewer's update of manager_score that names no status)
\* is legal only on an approved assessment, which it leaves approved; on a
\* pending or rejected assessment it fails and changes nothing.
C9_AdjustOnlyWhenApproved ==
  [][ /\ \A actor \in Users, id \in DOMAIN assessments :
           (/\ can_review(actor, assessments[id].user_id)
            /\ response'.actor = actor) =>
             \A body \in PutBodies :
               (/\ body.manager_score # None /\ body.status = Unset
                /\ update_assessment(actor, id, body)) =>
                 IF assessments[id].status = "approved"
                   THEN response'.code = 200 =>
                          assessments'[id].status = "approved"
                 ELSE response'.code # 200 /\ UNCHANGED data
      /\ \A actor \in Users, rid \in DOMAIN ratings :
           response'.actor = actor =>
             \A e \in EmployeeIds, d \in RatingUpdates :
               (/\ d.manager_score # None /\ d.status = Unset
                /\ update_employee_rating(actor, e, rid, d)) =>
                 IF ratings[rid].status = "confirmed"
                   THEN response'.code = 200 =>
                          ratings'[rid].status = "confirmed"
                 ELSE response'.code # 200 /\ UNCHANGED data
    ]_vars

\* The outcome of an approve of assessment id by reviewer with the given
\* manager score.
Approved(id, reviewer, score) ==
  /\ assessments'[id].status = "approved"
  /\ assessments'[id].manager_score = score
  /\ assessments'[id].approved_by_id = reviewer
  /\ assessments'[id].approved_at
  /\ Len(history'[id]) = Len(history[id]) + 1
  /\ SubSeq(history'[id], 1, Len(history[id])) = history[id]
  /\ history'[id][Len(history'[id])].change_type \in ApprovedTypes

\* C10: a successful approve of a pending assessment by reviewer R sets the
\* status to approved, manager_score to the score the reviewer supplies and
\* to self_score when none is supplied, approved_by_id to R and approved_at,
\* and appends exactly one history row, of type approved.
C10_ApproveEffects ==
  [][ \A actor \in Users, id \in DOMAIN assessments :
        (/\ assessments[id].status = "pending"
         /\ can_review(actor, assessments[id].user_id)
         /\ response'.actor = actor /\ response'.code = 200) =>
          /\ \A c \in CommentInputs :
               approve_assessment(actor, id, c) =>
                 Approved(id, actor, assessments[id].self_score)
          /\ \A body \in PutBodies :
               (body.status = "approved" /\ update_assessment(actor, id, body)) =>
                 Approved(id, actor,
                          IF body.manager_score # None THEN body.manager_score
                          ELSE assessments'[id].self_score)
    ]_vars

\* The outcome of a reject of assessment id with the given reason.
Rejected(id, reason) ==
  /\ assessments'[id].status = "rejected"
  /\ assessments'[id].reject_reason = reason
  /\ assessments'[id].self_score = assessments[id].self_score
  /\ assessments'[id].manager_score = assessments[id].manager_score
  /\ Len(history'[id]) = Len(history[id]) + 1
  /\ SubSeq(history'[id], 1, Len(history[id])) = history[id]
  /\ history'[id][Len(history'[id])].change_type \in RejectedTypes

\* C11: a successful reject of a pending assessment sets the status to
\* rejected and reject_reason to the reason supplied, leaves self_score,
\* manager_score and the confirmed (final) score unchanged, and appends
\* exactly one history row, of type rejected.
C11_RejectEffects ==
  [][ /\ \A actor \in Users, id \in DOMAIN assessments :
           (/\ assessments[id].status = "pending"
            /\ response'.actor = actor /\ response'.code = 200
            /\ response'.op = "reject_assessment") =>
             \A c \in ReasonInputs :
               reject_assessment(actor, id, c) => Rejected(id, c)
      /\ \A actor \in Users, rid \in DOMAIN ratings :
           (/\ ratings[rid].status = "pending"
            /\ response'.actor = actor /\ response'.code = 200
            /\ response'.op = "update_employee_rating") =>
             \A e \in EmployeeIds, d \in RatingUpdates :
               (d.status = "rejected"
                /\ update_employee_rating(actor, e, rid, d)) =>
                 /\ ratings'[rid].status = "rejected"
                 /\ ratings'[rid].self_score = ratings[rid].self_score
                 /\ ratings'[rid].manager_score = ratings[rid].manager_score
                 /\ ratings'[rid].final_score = ratings[rid].final_score
                 /\ RatingHistoryAdded(rid) = 1
                 /\ rating_history'[rid][Len(rating_history'[rid])].action
                      \in RejectedTypes
    ]_vars

\* The outcome of an owner's self-update of assessment id to score s: only
\* self_score and status may differ, and one history row of type updated
\* records the previous and the submitted self score.
SelfUpdated(id, s) ==
  /\ assessments'[id] =
       [assessments[id] EXCEPT !.self_score = s,
                               !.status = assessments'[id].status]
  /\ Len(history'[id]) = Len(history[id]) + 1
  /\ SubSeq(history'[id], 1, Len(history[id])) = history[id]
  /\ LET row == history'[id][Len(history'[id])]
     IN /\ row.change_type \in UpdatedTypes
        /\ row.old_score = assessments[id].self_score
        /\ row.new_score = s

\* C12: a self-update of an approved (confirmed) assessment changes only
\* self_score and status among the modelled columns: manager_score keeps its
\* value, and exactly one history row of type updated is appended whose old
\* score is the previous self_score and whose new score is the submitted one.
C12_SelfUpdateFrame ==
  [][ /\ \A id \in DOMAIN assessments :
           LET a == assessments[id]
               owner == a.user_id
           IN (/\ a.status = "approved"
               /\ response'.actor = owner /\ response'.code = 200) =>
                /\ \A s \in ScoreInputs, c \in CommentInputs :
                     create_assessment(owner, owner, a.skill_id, s, c) =>
                       SelfUpdated(id, s)
                /\ \A body \in PutBodies :
                     (/\ body = Body(body.self_score, None, Unset, NoText, NoText)
                      /\ body.self_score # None
                      /\ update_assessment(owner, id, body)) =>
                       SelfUpdated(id, body.self_score)
      /\ \A rid \in DOMAIN ratings :
           LET r == ratings[rid]
           IN (/\ r.status = "confirmed"
               /\ response'.actor = r.user_id /\ response'.code = 200) =>
                \A s \in ScoreInputs :
                  create_rating(r.user_id, r.skill_id, s) =>
                    /\ ratings'[rid] =
                         [r EXCEPT !.self_score = s,
                                   !.status = ratings'[rid].status]
                    /\ RatingHistoryAdded(rid) = 1
                    /\ LET row == rating_history'[rid][Len(rating_history'[rid])]
                       IN /\ row.action \in UpdatedTypes
                          /\ row.old_self_score = r.self_score
                          /\ row.new_self_score = s
    ]_vars

\* C13: the score the aggregations read for an assessment is the manager
\* (confirmed) score while the status is approved and the self score
\* otherwise; after an approved assessment is re-opened by a self-update its
\* effective score is the new self score.
C13_EffectiveScore ==
  /\ \A rid \in DOMAIN ratings :
       LET r == ratings[rid]
       IN IF r.status = "confirmed"
            THEN (/\ rating_history[rid] # <<>>
                  /\ rating_history[rid][Len(rating_history[rid])].new_status
                       = "confirmed") =>
                   effective_score(r) =
                     IF TruthyInt(r.manager_score) THEN r.manager_score
                     ELSE r.self_score
          ELSE effective_score(r) = r.self_score
  /\ \A id \in DOMAIN assessments :
       assessments[id].status = "approved" =>
         stats_score(assessments[id]) = assessments[id].manager_score

\* The caller of the step: the caller of the request in flight, or of the
\* call just answered.
StepActor == IF inflight' # <<>> THEN inflight'[1].actor ELSE response'.actor

\* C14: the self_score of an assessment is created or changed only in a call
\* of its owner: a call of any other user, whatever the role, that would
\* create a self-assessment for the owner or change the owner's self_score
\* changes nothing.
C14_SelfScoreOwnerOnly ==
  [][ \A id \in DOMAIN assessments' :
        (\/ id \notin DOMAIN assessments
         \/ assessments[id].self_score # assessments'[id].self_score) =>
          StepActor = assessments'[id].user_id
    ]_vars

\* can_view of an assessment of owner by actor.
can_view(actor, owner) ==
  \/ actor = owner
  \/ role(actor) \in {"admin", "hr", "director"}
  \/ role(actor) = "manager" /\ department_id(actor) = department_id(owner)

\* C15: a caller is shown an assessment, by the single read or by the list
\* read with any user_id / department_id filters, only when the caller is the
\* owner, or is admin, hr or director, or is a manager of the owner's
\* department.
C15_ReadOnlyWhenCanView ==
  \A actor \in Users :
    /\ \A id \in DOMAIN assessments :
         get_assessment(actor, id) = 200 =>
           can_view(actor, assessments[id].user_id)
    /\ \A u \in UserFilters, d \in DepartmentFilters :
         LET shown == get_assessments(actor, u, d)
         IN shown.code = 200 =>
              \A id \in shown.rows : can_view(actor, assessments[id].user_id)

\* Every stored score is in 1..5, a missing manager / final score aside.
ScoresInRange ==
  /\ \A id \in DOMAIN assessments :
       /\ assessments[id].self_score \in MinScore..MaxScore
       /\ assessments[id].manager_score \in {None} \cup (MinScore..MaxScore)
  /\ \A rid \in DOMAIN ratings :
       /\ ratings[rid].self_score \in MinScore..MaxScore
       /\ ratings[rid].manager_score \in {None} \cup (MinScore..MaxScore)
       /\ ratings[rid].final_score \in {None} \cup (MinScore..MaxScore)
  /\ \A id \in DOMAIN history : \A k \in 1..Len(history[id]) :
       history[id][k].new_score \in MinScore..MaxScore

OutOfRange(score) == score # None /\ score \notin MinScore..MaxScore

HistoryChained(rows) ==
  \A k \in 2..Len(rows) : rows[k].old_score = rows[k - 1].new_score
RatingHistoryChained(rows) ==
  \A k \in 2..Len(rows) : rows[k].old_self_score = rows[k - 1].new_self_score

\* C17: when concurrent self-assessment submissions for one (user, skill)
\* pair have all finished, whatever the interleaving of their look-ups and
\* commits, there is one row for the pair, every assessment has its 'created'
\* history row, and the old score of every history row is the self score the
\* row's update overwrote.
C17_ConcurrentSubmitsSerialize ==
  inflight = <<>> =>
    /\ \A u \in Users, sk \in Skills :
         Cardinality(RowsFor(u, sk)) <= 1 /\ Cardinality(RatingsFor(u, sk)) <= 1
    /\ \A id \in DOMAIN assessments :
         /\ history[id] # <<>>
         /\ history[id][1].change_type \in CreatedTypes
         /\ HistoryChained(history[id])
         /\ history[id][Len(history[id])].new_score = assessments[id].self_score
    /\ \A rid \in DOMAIN ratings :
         /\ RatingHistoryChained(rating_history[rid])
         /\ rating_history[rid] # <<>> =>
              rating_history[rid][Len(rating_history[rid])].new_self_score
                = ratings[rid].self_score

\* C18: retrying a lifecycle operation with the same inputs leaves
\* self_score, manager_score and status as the first call left them, and
\* every successful retry appends exactly one history row; so does a
\* re-submission of the same self_score to an existing assessment.
C18_RetryIdempotent ==
  [][ /\ \A id \in DOMAIN assessments :
           LET a == assessments[id]
           IN (response'.actor = a.user_id /\ response'.code = 200) =>
                /\ \A c \in CommentInputs :
                     (/\ a.status = "pending"
                      /\ create_assessment(a.user_id, a.user_id, a.skill_id,
                                           a.self_score, c)) =>
                       /\ Tracked(assessments'[id]) = Tracked(a)
                       /\ HistoryAdded(id) = 1
      /\ \A actor \in Users, id \in DOMAIN assessments :
           (/\ assessments[id].status = "approved"
            /\ assessments[id].approved_by_id = actor
            /\ response'.actor = actor /\ response'.code = 200
            /\ response'.op = "approve_assessment") =>
             \A c \in CommentInputs :
               approve_assessment(actor, id, c) =>
                 /\ Tracked(assessments'[id]) = Tracked(assessments[id])
                 /\ HistoryAdded(id) = 1
      /\ \A rid \in DOMAIN ratings :
           LET r == ratings[rid]
           IN (/\ r.status = "pending"
               /\ response'.actor = r.user_id /\ response'.code = 200
               /\ response'.op = "create_rating") =>
                (create_rating(r.user_id, r.skill_id, r.self_score) =>
                   /\ Tracked(ratings'[rid]) = Tracked(r)
                   /\ RatingHistoryAdded(rid) = 1)
    ]_vars

\* rows is an initial segment of later.
Prefix(rows, later) ==
  Len(rows) <= Len(later) /\ SubSeq(later, 1, Len(rows)) = rows

\* C19: the audit trail is append-only: no submit, review or adjust changes
\* or removes a history row; the rows of an assessment disappear only in the
\* delete of that assessment, and no history row remains for a deleted
\* assessment.
C19_HistoryAppendOnly ==
  /\ [](\A id \in DOMAIN history :
          history[id] # <<>> => id \in DOMAIN assessments)
  /\ [][ /\ \A id \in DOMAIN history :
              /\ id \in DOMAIN history'
              /\ IF id \in DOMAIN assessments'
                   THEN Prefix(history[id], history'[id])
                 ELSE /\ history'[id] = <<>>
                      /\ history[id] # <<>> =>
                           /\ response'.op = "delete_assessment"
                           /\ response'.code = 200
         /\ \A rid \in DOMAIN rating_history :
              /\ rid \in DOMAIN rating_history'
              /\ Prefix(rating_history[rid], rating_history'[rid])
       ]_vars

\* C19 witness: an assessment that had been reviewed (its owner was
\* notified) has been deleted, and no history row is left.
C19_Witness ==
  /\ backend = "fastapi"
  /\ response.op = "delete_assessment" /\ response.code = 200
  /\ notifications # <<>>
  /\ assessments = <<>>
  /\ history # <<>>
  /\ \A id \in DOMAIN history : history[id] = <<>>

\* One notification for owner has been appended in the step.
Notified(owner) ==
  /\ Len(notifications') = Len(notifications) + 1
  /\ SubSeq(notifications', 1, Len(notifications)) = notifications
  /\ notifications'[Len(notifications')].user_id = owner

RECURSIVE ManagersOf(_, _)
ManagersOf(u, n) ==
  IF n = 0 \/ users[u].manager_id \notin DOMAIN users THEN {}
  ELSE {users[u].manager_id} \cup ManagersOf(users[u].manager_id, n - 1)

\* C26: after any sequence of manager assignments and user updates the
\* manager_id relation is acyclic: no user is their own manager, directly or
\* through a chain of managers.
C26_ManagerRelationAcyclic ==
  \A u \in DOMAIN users : u \notin ManagersOf(u, Cardinality(DOMAIN users))

\* C30: in every manager_id relation reached through assign_manager and
\* update_user, can_view_employee returns True or False: the recursive search
\* for a subordinate never runs into the recursion limit.
C30_CanViewEmployeeReturnsBoolean ==
  response.op = "can_view_employee" => response.result \in {"True", "False"}

\* C27: in every reachable state reject_reason is set only while the status
\* of the assessment is rejected: a later self-update or approve that moves
\* the status away from rejected leaves no reject_reason behind, and no
\* operation sets it on a pending or approved assessment.
C27_RejectReasonOnlyWhenRejected ==
  \A id \in DOMAIN assessments :
    assessments[id].reject_reason # NoText => assessments[id].status = "rejected"

\* C28: in every reachable state an approved assessment has a manager_score
\* in 1..5 and an approved_by_id, and every operation that writes a confirmed
\* rating of the Flask backend leaves it with a final_score in 1..5 and a
\* confirmed_by.
C28_ApprovedHasManagerScore ==
  /\ [](\A id \in DOMAIN assessments :
          assessments[id].status = "approved" =>
            /\ assessments[id].manager_score \in MinScore..MaxScore
            /\ assessments[id].approved_by_id # None)
  /\ [][\A rid \in DOMAIN ratings :
          (ratings'[rid] # ratings[rid] /\ ratings'[rid].status = "confirmed") =>
            /\ ratings'[rid].final_score \in MinScore..MaxScore
            /\ ratings'[rid].confirmed_by # None]_vars

\* C29: for an approve of a reviewer that runs concurrently with a
\* self-update of the owner, under every interleaving of their look-ups and
\* commits: an approved assessment carries the self score as manager_score
\* (the approve never confirms a self score the owner has replaced), and the
\* commit of a self-update leaves the assessment pending.
C29_ApproveRacesSelfUpdate ==
  /\ [](\A id \in DOMAIN assessments :
          assessments[id].status = "approved" =>
            assessments[id].manager_score = assessments[id].self_score)
  /\ [][\A r \in Requests :
          (/\ r \in DOMAIN inflight
           /\ r \notin DOMAIN inflight'
           /\ inflight[r].existing # None) =>
            assessments'[inflight[r].existing].status = "pending"]_vars

\* The required skills of a department that has employees.
Required(dept) ==
  {n \in DOMAIN required_skills :
     /\ required_skills[n].department_id = dept
     /\ department_employees(dept) # {}}

\* The employees that have an approved rating for the required skill whose
\* score meets min_score.
Compliant(req_skill) ==
  {e \in department_employees(req_skill.department_id) :
     \E rid \in RatingsFor(e, req_skill.skill_id) :
        /\ ratings[rid].status = "confirmed"
        /\ ratings[rid].final_score # None
        /\ ratings[rid].final_score >= req_skill.min_score}

Reported(gaps, sk) == \E i \in DOMAIN gaps : gaps[i].skill_id = sk

\* C21: skill_gap_analysis counts an employee as compliant for a required
\* skill only if the employee has an approved rating for it whose score
\* meets min_score: the non_compliant_count of a reported skill is the number
\* of the other employees, and a skill is reported when more than 30 percent
\* of the employees are among them.
C21_GapCountsApprovedOnly ==
  response.op = "_get_department_skill_gaps" =>
    LET dept == response.actor
        gaps == response.result
        total == Cardinality(department_employees(dept))
        missing(n) == total - Cardinality(Compliant(required_skills[n]))
    IN /\ \A n \in Required(dept) :
            missing(n) * 100 > 30 * total =>
              Reported(gaps, required_skills[n].skill_id)
       /\ \A n \in Required(dept) : \A i \in DOMAIN gaps :
            gaps[i].skill_id = required_skills[n].skill_id =>
              gaps[i].non_compliant_count = missing(n)

\* C22: skill_gap_analysis reports a required skill if and only if its
\* gap_percentage, non_compliant_count / total_employees * 100, is greater
\* than 30 (a gap of exactly 30 is not reported), and the reported skills are
\* in descending order of gap_percentage.
C22_GapThresholdAndOrder ==
  response.op = "_get_department_skill_gaps" =>
    LET dept == response.actor
        gaps == response.result
        total == Cardinality(department_employees(dept))
        count(n) == Cardinality(non_compliant(required_skills[n]))
    IN /\ \A n \in Required(dept) :
            Reported(gaps, required_skills[n].skill_id) <=>
              count(n) * 100 > 30 * total
       /\ \A i \in DOMAIN gaps :
            /\ \E n \in Required(dept) :
                 /\ gaps[i].skill_id = required_skills[n].skill_id
                 /\ gaps[i].non_compliant_count = count(n)
            /\ gaps[i].total_employees = total
            /\ 2 * (gaps[i].gap_percentage * total
                      - gaps[i].non_compliant_count * 10000) \in -total..total
       /\ \A i, j \in DOMAIN gaps :
            i < j => gaps[i].gap_percentage >= gaps[j].gap_percentage
       /\ Required(dept) = {} => gaps = <<>>

\* C22 witness: of 10 employees 7 are compliant for skill 1 (a gap of 30,
\* not reported) and 2 for skill 2 (a gap of 80, reported).
C22_Witness ==
  /\ response.op = "_get_department_skill_gaps"
  /\ response.actor = 1
  /\ Cardinality(department_employees(1)) = 10
  /\ Cardinality(non_compliant(required_skills[1])) = 3
  /\ ~Reported(response.result, 1)
  /\ Reported(response.result, 2)

\* The required skills of a department that have an approved assessment of a
\* user of the department whose score meets min_score.
Covered(dept) ==
  {n \in DOMAIN required_skills :
     /\ required_skills[n].department_id = dept
     /\ \E i \in DOMAIN assessments :
          /\ assessments[i].status = "approved"
          /\ users[assessments[i].user_id].department_id = dept
          /\ assessments[i].skill_id = required_skills[n].skill_id
          /\ assessments[i].manager_score >= required_skills[n].min_score}

\* C23: the skill_coverage of department_stats is 100 times the number of
\* required skills of the department that have an approved assessment
\* meeting min_score, divided by the number of required skills, and 0 for a
\* department without required skills.
C23_SkillCoverage ==
  response.op \in {"get_department_stats", "_get_manager_dashboard_stats"} =>
    LET dept == response.actor
        required == {n \in DOMAIN required_skills :
                       required_skills[n].department_id = dept}
    IN response.result.skill_coverage =
         IF required = {} THEN 0
         ELSE RoundDiv(Cardinality(Covered(dept)) * 1000, Cardinality(required))

CompareOps ==
  {"compare_users", "compare_departments", "compare_assessments",
   "compare_employees"}

\* C24: a compare of fewer than two entities fails and answers no comparison
\* result, through every compare entry point.
C24_CompareNeedsTwoEntities ==
  (response.op \in CompareOps /\ Len(response.entities) < 2) =>
    response.code # 200 /\ response.result = <<>>

\* The skills of the filter for which the entity has an approved assessment.
Present(entry, skill_ids) ==
  {sk \in Elements(skill_ids) :
     \E i \in DOMAIN assessments :
        /\ assessments[i].status = "approved"
        /\ assessments[i].skill_id = sk
        /\ IF entry.entity_type = "user"
             THEN assessments[i].user_id = entry.entity_id
           ELSE users[assessments[i].user_id].department_id = entry.entity_id}

====
